---- MODULE Spec2Model ----
(***************************************************************************)
(* A model of the download engine of downloadManager.js: the registry      *)
(* (downloadsDb), the active-stream map, the chunk workers and their        *)
(* streams, the part files on disk, the persistent store and the events     *)
(* the engine emits.  Every action is one handler of the event loop: a      *)
(* socket command, the completion of an awaited promise, a stream event or *)
(* an interval tick.  A handler runs to completion, so the synchronous      *)
(* calls it makes (saveDb, tryToStartQueuedDownloads, downloadChunk up to   *)
(* its await, checkIfComplete up to its await) are part of the action.      *)
(***************************************************************************)
EXTENDS Integers, Sequences, FiniteSets, Bags, TLC

\* --- Configuration (downloadManager.js:13-14) ---
NUM_CHUNKS == 8
MAX_CONCURRENT_DOWNLOADS == 3

\* --- Bounds of the model ---
\* Chunks per entry in the state machine (the program plans NUM_CHUNKS; the
\* planning function itself is checked at NUM_CHUNKS under SpecPlan).
NumChunks == 2
\* Spec: start-download commands in one behaviour.
MaxDownloads == 1
\* Spec: pause / resume / pause-all / resume-all commands in one behaviour.
MaxCommands == 3
\* Spec: data buffers the origin delivers in one behaviour.
MaxData == 2
\* SpecQueue: entries beyond the MAX_CONCURRENT_DOWNLOADS slots.
QueueExtra == 1
\* SpecQueue: pause / resume / pause-all / resume-all commands.
QueueCommands == 2
\* SpecQueue: data buffers the origin delivers.
QueueData == 1
\* network or disk faults the environment injects in one behaviour.
MaxFaults == 1
\* data buffers whose write to the part file lags behind their delivery.
MaxLag == 1
\* progress ticks in one behaviour.
MaxTicks == 1
\* start-download commands whose HEAD request is pending at one time.
MaxHeads == 1
\* SpecCollide: start-download commands that arrive at the clock reading of
\* the one before, while its HEAD request is still pending.
MaxCollide == 1
\* SpecTiny: start-download commands, the last ones, for a resource of one
\* byte per chunk.
MaxTiny == 1
\* largest totalSize the chunk planner is applied to under SpecPlan.
MaxPlanSize == 130

VARIABLES
    objs,        \* the entry objects ever created (JS heap), by reference
    downloadsDb, \* the registry Map in insertion order: <<[id, ref]>>
    activeChunkStreams, \* id -> the chunk keys of that entry's stream map
    workers,     \* bag of chunk workers: awaiting GET, streaming or closing
    heads,       \* bag of createDownload calls awaiting their HEAD response
    asm,         \* bag of checkIfComplete calls awaiting assembleFile
    parts,       \* TEMP_FOLDER: id -> (chunk index -> bytes of part file)
    finals,      \* DOWNLOAD_FOLDER: url -> bytes of the final file
    store,       \* downloads.json as last written by saveDb
    emitted,     \* the events the last handler emitted, in order
    crashed,     \* an exception escaped a handler: the process is gone
    now,         \* the last Date.now() reading handed out as an id
    budget,      \* what the environment may still do in this behaviour
    pausedSince, \* entries paused and not re-admitted since (history)
    planSize,    \* SpecPlan: the totalSize handed to the chunk planner
    plan         \* SpecPlan: the chunks it planned

vars == <<objs, downloadsDb, activeChunkStreams, workers, heads, asm, parts,
          finals, store, emitted, crashed, now, budget, pausedSince,
          planSize, plan>>

\* ------------------------------------------------------------------ helpers

\* f with key k removed / set.
Without(f, k) == [x \in (DOMAIN f) \ {k} |-> f[x]]

With(f, k, v) == (k :> v) @@ f

BagAdd(b, x) == b (+) SetToBag({x})

BagRemove(b, x) == b (-) SetToBag({x})

BagFilter(b, Keep(_)) == [w \in {x \in BagToSet(b) : Keep(x)} |-> b[w]]

RECURSIVE SumCopies(_, _)
SumCopies(S, b) ==
    IF S = {} THEN 0
    ELSE LET x == CHOOSE x \in S : TRUE IN b[x] + SumCopies(S \ {x}, b)

BagMap(b, F(_)) ==
    [y \in {F(w) : w \in BagToSet(b)} |->
        SumCopies({w \in BagToSet(b) : F(w) = y}, b)]

RECURSIVE SumSeq(_)
SumSeq(s) == IF s = <<>> THEN 0 ELSE Head(s) + SumSeq(Tail(s))

RECURSIVE Concat(_)
Concat(ss) == IF ss = <<>> THEN <<>> ELSE Head(ss) \o Concat(Tail(ss))

Min(a, b) == IF a < b THEN a ELSE b

\* The bytes a resource of length n holds: offset i holds "byte i".
SourceBytes(n) == [i \in 1..n |-> i - 1]

\* The bytes at offsets a..b of a resource.
RangeBytes(a, b) == [i \in 1..(b - a + 1) |-> a + i - 1]

\* parseInt of a header that is absent or no number, line 128: NaN.  Every
\* sum and product with NaN is NaN and every comparison with it is false.
NaN == -1

\* --- chunk planning: createDownload, lines 146-156 ---
CeilDiv(a, b) == IF a = NaN THEN NaN ELSE (a + b - 1) \div b

ChunkStart(totalSize, n, i) ==
    IF totalSize = NaN THEN NaN ELSE i * CeilDiv(totalSize, n)

ChunkEnd(totalSize, n, i) ==
    IF totalSize = NaN THEN NaN
    ELSE IF i = n - 1 THEN totalSize - 1 ELSE (i + 1) * CeilDiv(totalSize, n) - 1

PlanChunks(totalSize, n) ==
    [k \in 1..n |-> [id |-> k - 1,
                     start |-> ChunkStart(totalSize, n, k - 1),
                     end |-> ChunkEnd(totalSize, n, k - 1),
                     status |-> "pending",
                     downloaded |-> 0]]

\* --- the memory a handler works on, as one record ---
Mem == [objs |-> objs, db |-> downloadsDb, acs |-> activeChunkStreams,
        workers |-> workers, asm |-> asm, parts |-> parts, store |-> store,
        emitted |-> <<>>, crashed |-> crashed, paused |-> pausedSince]

Commit(m) ==
    /\ objs' = m.objs
    /\ downloadsDb' = m.db
    /\ activeChunkStreams' = m.acs
    /\ workers' = m.workers
    /\ asm' = m.asm
    /\ parts' = m.parts
    /\ store' = m.store
    /\ emitted' = m.emitted
    /\ crashed' = m.crashed
    /\ pausedSince' = m.paused

\* downloadsDb.get(id): the reference the registry holds for id, 0 if none.
Lookup(db, id) ==
    IF \E i \in 1..Len(db) : db[i].id = id
    THEN db[CHOOSE i \in 1..Len(db) : db[i].id = id].ref
    ELSE 0

SetStatus(m, ref, s) == [m EXCEPT !.objs[ref].status = s]

SetChunk(m, ref, k, s) == [m EXCEPT !.objs[ref].chunks[k].status = s]

Emit(m, ev) == [m EXCEPT !.emitted = Append(@, ev)]

\* getFilesize, lines 38-43, of tempDir/part_<k-1>.
getFilesize(m, id, k) ==
    IF id \in DOMAIN m.parts /\ k \in DOMAIN m.parts[id]
    THEN Len(m.parts[id][k]) ELSE 0

\* JSON.stringify, line 81, of a number: NaN is written as null.
Null == -2

JsonNumber(x) == IF x = NaN THEN Null ELSE x

\* JSON.stringify then JSON.parse of an entry (lines 81 and 49).
JsonEntry(e) ==
    [e EXCEPT !.totalSize = JsonNumber(@),
              !.chunks = [k \in DOMAIN @ |->
                            [@[k] EXCEPT !.start = JsonNumber(@),
                                         !.end = JsonNumber(@)]]]

\* saveDb, lines 79-82: the whole registry, in registry order.
saveDb(m) ==
    [m EXCEPT !.store = [i \in 1..Len(m.db) |->
                            [id |-> m.db[i].id,
                             entry |-> JsonEntry(m.objs[m.db[i].ref])]]]

\* The forEach body of loadDb, lines 51-69, for the stored entry e, with the
\* temp folder holding ps.
RecoverEntry(e, ps) ==
    LET e1 == IF e.status \in {"downloading", "queued"}
              THEN [e EXCEPT !.status = "queued"] ELSE e
        size(k) == IF e.id \in DOMAIN ps /\ k \in DOMAIN ps[e.id]
                   THEN Len(ps[e.id][k]) ELSE 0
        cs == [k \in DOMAIN e.chunks |->
                 [e.chunks[k] EXCEPT
                    !.downloaded = IF e.id \notin DOMAIN ps THEN 0 ELSE size(k),
                    !.status = IF @ = "downloading" THEN "queued" ELSE @]]
    IN IF e1.tempDir
       THEN [e1 EXCEPT !.chunks = cs,
                       !.downloadedSize = SumSeq([k \in DOMAIN cs |-> cs[k].downloaded])]
       ELSE e1

\* loadDb, lines 45-77, into an empty registry: the pairs downloadsDb then
\* holds, in order.
loadDb(st, ps) ==
    [i \in 1..Len(st) |-> [id |-> st[i].id, entry |-> RecoverEntry(st[i].entry, ps)]]

\* What readFileSync finds in downloads.json, lines 48-50: text that
\* JSON.parse rejects, or an array elems of which the elements at the
\* positions broken are no [id, entry] pair (null, or a pair whose entry is
\* null), so that the forEach callback throws a TypeError on them.
Unparseable == [parses |-> FALSE, elems |-> <<>>, broken |-> {}]

Content(st, broken) == [parses |-> TRUE, elems |-> st, broken |-> broken]

\* loadDb with its try and catch, lines 45-77, into an empty registry: what
\* forEach had set when the exception, if any, was thrown.
loadDbCatching(c, ps) ==
    IF ~c.parses THEN <<>>
    ELSE LET good == {n \in 0..Len(c.elems) : \A i \in 1..n : i \notin c.broken}
             upTo == CHOOSE n \in good : \A x \in good : x <= n
         IN loadDb(SubSeq(c.elems, 1, upTo), ps)

\* checkIfComplete up to its await, lines 267-275.
checkIfComplete(m, id) ==
    LET ref == Lookup(m.db, id) IN
    IF ref = 0 THEN m
    ELSE IF \A k \in 1..Len(m.objs[ref].chunks) :
                m.objs[ref].chunks[k].status = "complete"
    THEN [SetStatus(m, ref, "assembling") EXCEPT !.asm = BagAdd(@, ref)]
    ELSE m

\* The range test of downloadChunk, line 213.
RangeDone(rangeStart, end) ==
    rangeStart # NaN /\ end # NaN /\ rangeStart >= end

\* The worker downloadChunk leaves awaiting its GET, lines 219-225.
NewWorker(ref, k, rangeStart, end) ==
    [ref |-> ref, chunk |-> k, phase |-> "request", next |-> rangeStart,
     last |-> end, buf |-> <<>>, reg |-> FALSE]

\* downloadChunk up to its await, lines 201-225.  With tempDir null
\* path.join throws before the try block: the rejection is unhandled.
downloadChunk(m, id, k) ==
    LET ref == Lookup(m.db, id) IN
    IF ref = 0 \/ m.objs[ref].status # "downloading" THEN m
    ELSE IF ~m.objs[ref].tempDir THEN [m EXCEPT !.crashed = TRUE]
    ELSE
      LET size == getFilesize(m, id, k)
          c == m.objs[ref].chunks[k]
          rangeStart == IF c.start = NaN THEN NaN ELSE c.start + size
          m1 == [m EXCEPT !.objs[ref].chunks[k].downloaded = size,
                          !.objs[ref].chunks[k].status = "downloading"]
      IN IF RangeDone(rangeStart, c.end)
         THEN checkIfComplete(SetChunk(m1, ref, k, "complete"), id)
         ELSE [m1 EXCEPT !.workers = BagAdd(@, NewWorker(ref, k, rangeStart, c.end))]

\* The forEach of lines 107-111 from chunk k on.
RECURSIVE StartChunks(_, _, _)
StartChunks(m, ref, k) ==
    IF k > Len(m.objs[ref].chunks) THEN m
    ELSE IF m.objs[ref].chunks[k].status # "complete"
    THEN StartChunks(downloadChunk(m, m.objs[ref].id, k), ref, k + 1)
    ELSE StartChunks(m, ref, k + 1)

\* The streams registered under the keys ks of entry id's stream map lose
\* their registration (the map is replaced, or the keys are deleted or
\* overwritten).
Unregister(ws, os, id, ks) ==
    BagMap(ws, LAMBDA w : IF w.reg /\ os[w.ref].id = id /\ w.chunk \in ks
                          THEN [w EXCEPT !.reg = FALSE] ELSE w)

\* Lines 103-106: the admission of one queued entry.
Admit(m, ref) ==
    LET id == m.objs[ref].id
        m1 == [SetStatus(m, ref, "downloading") EXCEPT
                  !.acs = With(@, id, {}),
                  !.workers = Unregister(@, m.objs, id, 1..NumChunks),
                  !.paused = @ \ {ref}]
    IN Emit(m1, [type |-> "download-started", id |-> id])

\* A scheduler that walks the registry from its newest entry to its oldest.
RECURSIVE AdmitNewestFirst(_, _, _)
AdmitNewestFirst(m, i, slotsAvailable) ==
    IF i > Len(m.db) THEN m
    ELSE LET r == m.db[Len(m.db) + 1 - i].ref IN
      IF m.objs[r].status = "queued"
      THEN LET m1 == StartChunks(Admit(m, r), r, 1)
           IN IF slotsAvailable - 1 <= 0 THEN m1
              ELSE AdmitNewestFirst(m1, i + 1, slotsAvailable - 1)
      ELSE AdmitNewestFirst(m, i + 1, slotsAvailable)

\* The loop of lines 101-115 from registry position i on.
RECURSIVE AdmitFrom(_, _, _)
AdmitFrom(m, i, slotsAvailable) ==
    IF i > Len(m.db) THEN m
    ELSE IF m.objs[m.db[i].ref].status = "queued"
    THEN LET m1 == StartChunks(Admit(m, m.db[i].ref), m.db[i].ref, 1)
         IN IF slotsAvailable - 1 <= 0 THEN m1
            ELSE AdmitFrom(m1, i + 1, slotsAvailable - 1)
    ELSE AdmitFrom(m, i + 1, slotsAvailable)

ActiveDownloads(m) ==
    Cardinality({i \in 1..Len(m.db) : m.objs[m.db[i].ref].status = "downloading"})

\* A scheduler that hands out MAX_CONCURRENT_DOWNLOADS slots on every pass,
\* whatever is downloading already.
AdmitIgnoringActive(m) == saveDb(AdmitFrom(m, 1, MAX_CONCURRENT_DOWNLOADS))

\* tryToStartQueuedDownloads, lines 96-117.
tryToStartQueuedDownloads(m) ==
    LET slotsAvailable == MAX_CONCURRENT_DOWNLOADS - ActiveDownloads(m) IN
    IF slotsAvailable <= 0 THEN m
    ELSE saveDb(AdmitFrom(m, 1, slotsAvailable))

\* A pause that destroys nothing and keeps the entry's stream map.
KeepStreams(m, id) == m

\* Lines 312-319 of pauseDownload: destroy() ends every registered response
\* stream; close() ends its writer once the writes already queued have
\* reached the file.
DestroyStreams(m, id) ==
    LET hit(w) == w.reg /\ m.objs[w.ref].id = id IN
    [m EXCEPT
       !.workers = BagMap(BagFilter(@, LAMBDA w : ~(hit(w) /\ w.buf = <<>>)),
                          LAMBDA w : IF hit(w)
                                     THEN [w EXCEPT !.reg = FALSE, !.phase = "closing"]
                                     ELSE w),
       !.acs = Without(@, id)]

PauseChunks(m, ref) ==
    [m EXCEPT !.objs[ref].chunks =
        [k \in DOMAIN @ |->
            IF @[k].status = "downloading" THEN [@[k] EXCEPT !.status = "paused"]
            ELSE @[k]]]

\* pauseDownload, lines 306-328.
pauseDownload(m, id) ==
    LET ref == Lookup(m.db, id) IN
    IF ref = 0 THEN m
    ELSE IF m.objs[ref].status \notin {"downloading", "queued"} THEN m
    ELSE
      LET m1 == [SetStatus(m, ref, "paused") EXCEPT !.paused = @ \cup {ref}]
          m2 == IF id \in DOMAIN m1.acs THEN DestroyStreams(m1, id) ELSE m1
          m3 == saveDb(PauseChunks(m2, ref))
      IN tryToStartQueuedDownloads(Emit(m3, [type |-> "download-list", id |-> 0]))

\* startOrResumeDownload, lines 191-199.
startOrResumeDownload(m, id) ==
    LET ref == Lookup(m.db, id) IN
    IF ref = 0 THEN m
    ELSE
      LET m1 == saveDb([m EXCEPT !.objs[ref].status = "queued",
                                 !.objs[ref].error = <<>>])
      IN tryToStartQueuedDownloads(Emit(m1, [type |-> "download-list", id |-> 0]))

\* The loop of the pause-all-downloads handler, lines 414-418.
RECURSIVE PauseAllFrom(_, _)
PauseAllFrom(m, i) ==
    IF i > Len(m.db) THEN m
    ELSE IF m.objs[m.db[i].ref].status \in {"downloading", "queued"}
    THEN PauseAllFrom(pauseDownload(m, m.db[i].id), i + 1)
    ELSE PauseAllFrom(m, i + 1)

\* A resume-all that re-queues every entry that is neither running nor done.
ResumeAllButComplete(m) ==
    LET refs == {m.db[i].ref : i \in 1..Len(m.db)}
        m1 == [m EXCEPT !.objs =
                 [r \in DOMAIN @ |->
                    IF r \in refs /\ @[r].status \in {"paused", "error"}
                    THEN [@[r] EXCEPT !.status = "queued", !.error = <<>>]
                    ELSE @[r]]]
    IN tryToStartQueuedDownloads(
          Emit(saveDb(m1), [type |-> "download-list", id |-> 0]))

\* The resume-all-downloads handler, lines 421-431.
resumeAll(m) ==
    LET refs == {m.db[i].ref : i \in 1..Len(m.db)}
        m1 == [m EXCEPT !.objs =
                 [r \in DOMAIN @ |->
                    IF r \in refs /\ @[r].status = "paused"
                    THEN [@[r] EXCEPT !.status = "queued", !.error = <<>>]
                    ELSE @[r]]]
    IN tryToStartQueuedDownloads(
          Emit(saveDb(m1), [type |-> "download-list", id |-> 0]))

\* A catch block that records the failure and does not call the scheduler.
CatchWithoutScheduler(m, w) ==
    Emit(saveDb([m EXCEPT !.objs[w.ref].chunks[w.chunk].status = "error",
                          !.objs[w.ref].status = "error",
                          !.objs[w.ref].error = <<"Chunk", w.chunk - 1>>,
                          !.workers = BagRemove(@, w)]),
         [type |-> "download-error", id |-> m.objs[w.ref].id])

\* The catch block of downloadChunk, lines 254-264, in the worker w.
ChunkCatch(m, w) ==
    LET m1 == [m EXCEPT !.objs[w.ref].chunks[w.chunk].status = "error",
                        !.objs[w.ref].status = "error",
                        !.objs[w.ref].error = <<"Chunk", w.chunk - 1>>,
                        !.workers = BagRemove(@, w)]
        m2 == Emit(saveDb(m1), [type |-> "download-error", id |-> m.objs[w.ref].id])
    IN tryToStartQueuedDownloads(m2)

\* getAggregatedProgress, lines 333-364, over the registry from position i.
RECURSIVE Aggregate(_, _)
Aggregate(m, i) ==
    IF i > Len(m.db) THEN m
    ELSE LET ref == m.db[i].ref IN
      IF m.objs[ref].status = "downloading"
      THEN LET total == SumSeq([k \in DOMAIN m.objs[ref].chunks |->
                                   m.objs[ref].chunks[k].downloaded])
               m1 == [m EXCEPT !.objs[ref].downloadedSize = total]
           IN Aggregate(Emit(m1, [type |-> "download-progress",
                                  id |-> m.db[i].id]), i + 1)
      ELSE Aggregate(m, i + 1)

\* assembleFile, lines 295-304: the part files that can be read, in order,
\* up to the first one that is missing.
RECURSIVE ReadableParts(_, _, _)
ReadableParts(m, ref, k) ==
    LET id == m.objs[ref].id IN
    IF k > Len(m.objs[ref].chunks) THEN <<>>
    ELSE IF m.objs[ref].tempDir /\ id \in DOMAIN m.parts /\ k \in DOMAIN m.parts[id]
    THEN <<m.parts[id][k]>> \o ReadableParts(m, ref, k + 1)
    ELSE <<>>

AssemblyReadsAll(m, ref) ==
    Len(ReadableParts(m, ref, 1)) = Len(m.objs[ref].chunks)


\* ------------------------------------------------------------------ actions

\* What the origin answers to the HEAD for a resource of length url: the
\* request fails, or the response carries these headers.
GoodHead(url) ==
    [failed |-> FALSE, acceptRanges |-> "bytes", contentLength |-> url]

BadHeads(url) ==
    ({[failed |-> TRUE, acceptRanges |-> "bytes", contentLength |-> url]}
       \cup [failed : {FALSE}, acceptRanges : {"bytes", "none"},
             contentLength : {url, NaN}])
    \ {GoodHead(url)}

\* socket.on('start-download'): createDownload up to its await, lines 122-127.
\* Date.now() has moved on since the last command, or (budget.collide) not.
\* The mock origin names a resource by its length.
StartDownload(url) ==
    /\ ~crashed
    /\ budget.downloads > 0
    /\ BagCardinality(heads) < MaxHeads + budget.collide
    /\ \E id \in {now + 1} \cup (IF budget.collide > 0 /\ now > 0 THEN {now} ELSE {}),
          r \in {GoodHead(url)} \cup (IF budget.faults > 0 THEN BadHeads(url) ELSE {}) :
          /\ heads' = BagAdd(heads, [id |-> id, url |-> url, response |-> r])
          /\ budget' = [budget EXCEPT !.downloads = @ - 1,
                                      !.collide = IF id = now THEN @ - 1 ELSE @,
                                      !.faults = IF r = GoodHead(url) THEN @ ELSE @ - 1]
          /\ now' = id
    /\ emitted' = <<>>
    /\ UNCHANGED <<objs, downloadsDb, activeChunkStreams, workers, asm, parts,
                   finals, store, crashed, pausedSince, planSize, plan>>

\* downloadsDb.set(id, entry), line 173: a new key goes last, a key the Map
\* already has keeps its place and gets the new value.
MapSet(db, id, ref) ==
    IF \E i \in 1..Len(db) : db[i].id = id
    THEN [i \in 1..Len(db) |-> IF db[i].id = id THEN [id |-> id, ref |-> ref] ELSE db[i]]
    ELSE Append(db, [id |-> id, ref |-> ref])

\* The entry of lines 158-171.
NewEntry(id, url, totalSize) ==
    [id |-> id, url |-> url, totalSize |-> totalSize, downloadedSize |-> 0,
     status |-> "queued", error |-> <<>>, tempDir |-> TRUE,
     chunks |-> PlanChunks(totalSize, NumChunks)]

\* createDownload after its await, lines 128-178, for the HEAD request h
\* whose response advertises byte ranges: totalSize is whatever parseInt made
\* of Content-Length.
HeadOk(h) ==
    /\ ~crashed
    /\ h \in BagToSet(heads)
    /\ ~h.response.failed
    /\ h.response.acceptRanges = "bytes"
    /\ LET ref == Len(objs) + 1
           m1 == [Mem EXCEPT
                    !.parts = IF h.id \in DOMAIN @ THEN @ ELSE With(@, h.id, <<>>),
                    !.objs = Append(@, NewEntry(h.id, h.url, h.response.contentLength)),
                    !.db = MapSet(@, h.id, ref)]
           m2 == Emit(saveDb(m1), [type |-> "download-list", id |-> 0])
       IN Commit(tryToStartQueuedDownloads(m2))
    /\ heads' = BagRemove(heads, h)
    /\ UNCHANGED <<finals, now, budget, planSize, plan>>

\* The message of the Error thrown at line 131.
Unsupported == "Server does not support resumable (multi-part) downloads."

\* The event of line 182 for the url and error message why.
StartFailed(url, why) ==
    [type |-> "download-error", id |-> url,
     error |-> <<"Failed to start download: ", why>>]

\* A createDownload that tests Accept-Ranges only after it has registered and
\* saved the entry.
RejectedAfterRegistering(h, why) ==
    /\ ~crashed
    /\ h \in BagToSet(heads)
    /\ IF h.response.failed THEN why = "Network Error"
       ELSE h.response.acceptRanges # "bytes" /\ why = Unsupported
    /\ LET m1 == [Mem EXCEPT
                    !.objs = Append(@, NewEntry(h.id, h.url, h.response.contentLength)),
                    !.db = MapSet(@, h.id, Len(objs) + 1)]
       IN Commit(Emit(saveDb(m1), StartFailed(h.url, why)))
    /\ heads' = BagRemove(heads, h)
    /\ UNCHANGED <<finals, now, budget, planSize, plan>>

\* createDownload's catch block, lines 180-183: the HEAD failed, or its
\* response does not advertise Accept-Ranges: bytes (line 130).
HeadRejected(h, why) ==
    /\ ~crashed
    /\ h \in BagToSet(heads)
    /\ IF h.response.failed THEN why = "Network Error"
       ELSE h.response.acceptRanges # "bytes" /\ why = Unsupported
    /\ emitted' = <<StartFailed(h.url, why)>>
    /\ heads' = BagRemove(heads, h)
    /\ UNCHANGED <<objs, downloadsDb, activeChunkStreams, workers, asm, parts,
                   finals, store, crashed, now, budget, pausedSince, planSize, plan>>

RegisteredIds == {downloadsDb[i].id : i \in 1..Len(downloadsDb)}

\* socket.on('pause-download'), lines 405-407.
PauseDownload(id) ==
    /\ ~crashed
    /\ budget.commands > 0
    /\ id \in RegisteredIds
    /\ objs[Lookup(downloadsDb, id)].status \in {"downloading", "queued"}
    /\ Commit(pauseDownload(Mem, id))
    /\ budget' = [budget EXCEPT !.commands = @ - 1]
    /\ UNCHANGED <<heads, finals, now, planSize, plan>>

\* socket.on('resume-download'), lines 409-411.
ResumeDownload(id) ==
    /\ ~crashed
    /\ budget.commands > 0
    /\ id \in RegisteredIds
    /\ Commit(startOrResumeDownload(Mem, id))
    /\ budget' = [budget EXCEPT !.commands = @ - 1]
    /\ UNCHANGED <<heads, finals, now, planSize, plan>>

\* socket.on('pause-all-downloads'), lines 413-419.
PauseAll ==
    /\ ~crashed
    /\ budget.commands > 0
    /\ Commit(PauseAllFrom(Mem, 1))
    /\ budget' = [budget EXCEPT !.commands = @ - 1]
    /\ UNCHANGED <<heads, finals, now, planSize, plan>>

\* socket.on('resume-all-downloads'), lines 421-431.
ResumeAll ==
    /\ ~crashed
    /\ budget.commands > 0
    /\ Commit(resumeAll(Mem))
    /\ budget' = [budget EXCEPT !.commands = @ - 1]
    /\ UNCHANGED <<heads, finals, now, planSize, plan>>

\* The response stream of worker w is over: its writer ends once the writes
\* already queued have reached the file.
Retire(m, w) ==
    IF w.buf = <<>> THEN [m EXCEPT !.workers = BagRemove(@, w)]
    ELSE [m EXCEPT !.workers =
            BagAdd(BagRemove(@, w), [w EXCEPT !.phase = "closing", !.reg = FALSE])]

\* fs.createWriteStream(tempFilePath, {flags: 'a'}), line 226: the part
\* file is created; without its directory the open fails with no listener.
OpenPart(m, id, k) ==
    [m EXCEPT !.parts = IF id \in DOMAIN @ /\ k \notin DOMAIN @[id]
                        THEN [@ EXCEPT ![id] = With(@, k, <<>>)] ELSE @,
              !.crashed = @ \/ id \notin DOMAIN m.parts]

\* Bytes bs reach the part file k of tempDir temp_<id>, if it still exists.
WritePart(m, id, k, bs) ==
    [m EXCEPT !.parts = IF id \in DOMAIN @ /\ k \in DOMAIN @[id]
                        THEN [@ EXCEPT ![id][k] = @ \o bs] ELSE @]

\* downloadChunk after its await, lines 220-253: the GET of worker w is
\* answered.  A range that starts past the resource is refused (416), which
\* axios rejects; a Range header that is no range (bytes=NaN-NaN) is ignored
\* and the whole resource is sent.  The registration of line 227 throws when
\* the entry has no stream map, and lands in the catch block.
GetResponse(w) ==
    /\ ~crashed
    /\ w \in BagToSet(workers)
    /\ w.phase = "request"
    /\ LET id == objs[w.ref].id
           size == objs[w.ref].url
           from == IF w.next = NaN THEN 0 ELSE w.next
           to == IF w.next = NaN THEN size - 1 ELSE Min(w.last, size - 1)
           opened == OpenPart(Mem, id, w.chunk)
       IN IF from >= size THEN Commit(ChunkCatch(Mem, w))
          ELSE IF id \notin DOMAIN activeChunkStreams
          THEN Commit(ChunkCatch(opened, w))
          ELSE Commit([opened EXCEPT
                 !.acs[id] = @ \cup {w.chunk},
                 !.workers = BagAdd(
                    Unregister(BagRemove(@, w), objs, id, {w.chunk}),
                    [w EXCEPT !.phase = "streaming", !.reg = TRUE,
                              !.next = from, !.last = to])])
    /\ UNCHANGED <<heads, finals, now, budget, planSize, plan>>

\* The GET of worker w fails (axios rejects): the catch block.
GetFails(w) ==
    /\ ~crashed
    /\ w \in BagToSet(workers)
    /\ w.phase = "request"
    /\ budget.faults > 0
    /\ budget' = [budget EXCEPT !.faults = @ - 1]
    /\ Commit(ChunkCatch(Mem, w))
    /\ UNCHANGED <<heads, finals, now, planSize, plan>>

\* response.data.on('data'), lines 228-238, for a buffer of n bytes, and
\* pipe's write of it to the part file: the write completes at once, or (lag)
\* stays queued in the writer.
Data(w, n, lag) ==
    /\ ~crashed
    /\ w \in BagToSet(workers)
    /\ w.phase = "streaming"
    /\ n \in 1..(w.last - w.next + 1)
    /\ budget.data > 0
    /\ IF lag THEN budget.lag > 0 ELSE w.buf = <<>>
    /\ budget' = [budget EXCEPT !.data = @ - 1, !.lag = IF lag THEN @ - 1 ELSE @]
    /\ LET bs == RangeBytes(w.next, w.next + n - 1)
           w2 == [w EXCEPT !.next = @ + n,
                           !.buf = IF lag THEN Append(@, bs) ELSE @]
           m1 == [Mem EXCEPT
                    !.objs[w.ref].chunks[w.chunk].downloaded = @ + n,
                    !.workers = BagAdd(BagRemove(@, w), w2)]
       IN Commit(IF lag THEN m1 ELSE WritePart(m1, objs[w.ref].id, w.chunk, bs))
    /\ UNCHANGED <<heads, finals, now, planSize, plan>>

\* The file writer of worker w completes its oldest queued write.
Flush(w) ==
    /\ ~crashed
    /\ w \in BagToSet(workers)
    /\ w.buf # <<>>
    /\ LET w2 == [w EXCEPT !.buf = Tail(@)]
           m1 == WritePart([Mem EXCEPT !.workers = BagAdd(BagRemove(@, w), w2)],
                           objs[w.ref].id, w.chunk, Head(w.buf))
       IN Commit(IF w.phase = "closing" THEN Retire(m1, w2) ELSE m1)
    /\ UNCHANGED <<heads, finals, now, budget, planSize, plan>>

\* response.data.on('end'), lines 239-246; pipe then ends the writer.
End(w) ==
    /\ ~crashed
    /\ w \in BagToSet(workers)
    /\ w.phase = "streaming"
    /\ w.next > w.last
    /\ LET id == objs[w.ref].id
           m0 == Retire(Mem, w)
           m1 == SetChunk(m0, w.ref, w.chunk, "complete")
       IN IF objs[w.ref].status # "downloading" THEN Commit(m0)
          ELSE IF id \notin DOMAIN activeChunkStreams
          THEN Commit([m1 EXCEPT !.crashed = TRUE])
          ELSE Commit(checkIfComplete(
                 saveDb([m1 EXCEPT !.acs[id] = @ \ {w.chunk},
                                   !.workers = Unregister(@, objs, id, {w.chunk})]),
                 id))
    /\ UNCHANGED <<heads, finals, now, budget, planSize, plan>>

\* response.data.on('error'), lines 247-252: the body fails mid-transfer.
StreamError(w) ==
    /\ ~crashed
    /\ w \in BagToSet(workers)
    /\ w.phase = "streaming"
    /\ budget.faults > 0
    /\ budget' = [budget EXCEPT !.faults = @ - 1]
    /\ LET id == objs[w.ref].id
           m1 == SetChunk(Retire(Mem, w), w.ref, w.chunk, "error")
       IN IF id \notin DOMAIN activeChunkStreams
          THEN Commit([m1 EXCEPT !.crashed = TRUE])
          ELSE Commit(saveDb([m1 EXCEPT
                 !.acs[id] = @ \ {w.chunk},
                 !.workers = Unregister(@, objs, id, {w.chunk})]))
    /\ UNCHANGED <<heads, finals, now, planSize, plan>>

\* checkIfComplete after its await, lines 276-291, for an assembly of the
\* entry ref.  assembleFile copies the part files in order into the final
\* file; it fails when one cannot be read, or (a fault) on another I/O error.
AssembleDone(ref, ok) ==
    /\ ~crashed
    /\ ref \in BagToSet(asm)
    /\ LET e == objs[ref]
           m0 == [Mem EXCEPT !.asm = BagRemove(@, ref)]
           done == [m0 EXCEPT !.parts = IF e.id \in DOMAIN @ THEN Without(@, e.id) ELSE @,
                              !.objs[ref].tempDir = FALSE,
                              !.objs[ref].status = "complete"]
           failed == [m0 EXCEPT !.objs[ref].status = "error",
                                !.objs[ref].error = <<"Failed to assemble file.">>]
       IN /\ ok => AssemblyReadsAll(Mem, ref)
          /\ (~ok /\ AssemblyReadsAll(Mem, ref)) => budget.faults > 0
          /\ budget' = IF ~ok /\ AssemblyReadsAll(Mem, ref)
                       THEN [budget EXCEPT !.faults = @ - 1] ELSE budget
          /\ finals' = IF e.tempDir
                       THEN With(finals, e.url, Concat(ReadableParts(Mem, ref, 1)))
                       ELSE finals
          /\ IF ok
             THEN Commit(tryToStartQueuedDownloads(
                    Emit(saveDb(done), [type |-> "download-complete", id |-> e.id])))
             ELSE Commit(tryToStartQueuedDownloads(
                    Emit(saveDb(failed), [type |-> "download-error", id |-> e.id])))
    /\ UNCHANGED <<heads, now, planSize, plan>>

\* The progress interval of init, lines 386-391.
ProgressTick ==
    /\ ~crashed
    /\ budget.ticks > 0
    /\ budget' = [budget EXCEPT !.ticks = @ - 1]
    /\ Commit(Aggregate(Mem, 1))
    /\ UNCHANGED <<heads, finals, now, planSize, plan>>

\* ------------------------------------------------------------------ specifications

\* init, lines 377-380, with no downloads.json: an empty registry, which the
\* first scheduler pass writes out.
InitWith(b) ==
    /\ objs = <<>>
    /\ downloadsDb = <<>>
    /\ activeChunkStreams = <<>>
    /\ workers = EmptyBag
    /\ heads = EmptyBag
    /\ asm = EmptyBag
    /\ parts = <<>>
    /\ finals = <<>>
    /\ store = <<>>
    /\ emitted = <<>>
    /\ crashed = FALSE
    /\ now = 0
    /\ budget = b
    /\ pausedSince = {}
    /\ planSize = 0
    /\ plan = <<>>

\* What the environment may do in one behaviour: d start-download commands
\* for a resource of length url, n data buffers, and one of: c other
\* commands; c - 1 other commands and faults, or lagging writes, or progress
\* ticks.
Budgets(url, d, c, n) ==
    {[url |-> url, downloads |-> d, data |-> n, collide |-> 0, tiny |-> 0,
      commands |-> x[1], faults |-> x[2], lag |-> x[3], ticks |-> x[4]] :
        x \in {<<c, 0, 0, 0>>, <<c - 1, MaxFaults, 0, 0>>,
               <<c - 1, 0, MaxLag, 0>>, <<c - 1, 0, 0, MaxTicks>>}}

\* One entry whose chunks all need the network.
Init == \E b \in Budgets(2 * NumChunks, MaxDownloads, MaxCommands, MaxData) : InitWith(b)

\* More entries than download slots, each with one chunk that needs the
\* network (the last byte is a chunk of its own).
InitQueue ==
    \E b \in Budgets(NumChunks + 1, MAX_CONCURRENT_DOWNLOADS + QueueExtra,
                     QueueCommands, QueueData) : InitWith(b)

\* The resource the next start-download names: the last budget.tiny commands
\* name one of a byte per chunk.
NextUrl == IF budget.downloads <= budget.tiny THEN NumChunks ELSE budget.url

Next ==
    \/ StartDownload(NextUrl)
    \/ \E h \in BagToSet(heads) : HeadOk(h)
    \/ \E h \in BagToSet(heads) :
          HeadRejected(h, Unsupported)
    \/ \E h \in BagToSet(heads) : HeadRejected(h, "Network Error")
    \/ \E id \in RegisteredIds : PauseDownload(id)
    \/ \E id \in RegisteredIds : ResumeDownload(id)
    \/ PauseAll
    \/ ResumeAll
    \/ \E w \in BagToSet(workers) : GetResponse(w)
    \/ \E w \in BagToSet(workers) : GetFails(w)
    \/ \E w \in BagToSet(workers), n \in 1..(3 * NumChunks), lag \in BOOLEAN : Data(w, n, lag)
    \/ \E w \in BagToSet(workers) : Flush(w)
    \/ \E w \in BagToSet(workers) : End(w)
    \/ \E w \in BagToSet(workers) : StreamError(w)
    \/ \E ref \in BagToSet(asm), ok \in BOOLEAN : AssembleDone(ref, ok)
    \/ ProgressTick

Spec == Init /\ [][Next]_vars

SpecQueue == InitQueue /\ [][Next]_vars


\* --- the chunk planner on its own: createDownload, lines 146-156 ---
InitPlan ==
    InitWith([url |-> 0, downloads |-> 0, data |-> 0, collide |-> 0, tiny |-> 0,
              commands |-> 0, faults |-> 0, lag |-> 0, ticks |-> 0])

PlanStep(totalSize) ==
    /\ plan = <<>>
    /\ planSize' = totalSize
    /\ plan' = PlanChunks(totalSize, NUM_CHUNKS)
    /\ UNCHANGED <<objs, downloadsDb, activeChunkStreams, workers, heads, asm,
                   parts, finals, store, emitted, crashed, now, budget,
                   pausedSince>>

NextPlan == \E totalSize \in 1..MaxPlanSize : PlanStep(totalSize)

SpecPlan == InitPlan /\ [][NextPlan]_vars

\* --- one entry under every kind of disturbance at once: a command, a
\* fault, a lagging write and a progress tick ---
InitMixed ==
    InitWith([url |-> 2 * NumChunks, downloads |-> MaxDownloads, data |-> MaxData,
              collide |-> 0, tiny |-> 0, commands |-> MaxCommands - 2, faults |-> MaxFaults,
              lag |-> MaxLag, ticks |-> MaxTicks])

SpecMixed == InitMixed /\ [][Next]_vars

\* --- two start-download commands, the second of which may arrive within the
\* millisecond of the first ---
InitCollide ==
    InitWith([url |-> NumChunks + 1, downloads |-> MaxDownloads + 1,
              data |-> QueueData, collide |-> MaxCollide, tiny |-> 0,
              commands |-> QueueCommands - 1, faults |-> MaxFaults,
              lag |-> MaxLag, ticks |-> MaxTicks])

SpecCollide == InitCollide /\ [][Next]_vars

\* --- a queue whose last entry is a resource of one byte per chunk ---
InitTiny ==
    \E b \in Budgets(NumChunks + 1, MAX_CONCURRENT_DOWNLOADS + MaxTiny,
                     QueueCommands - 1, QueueData) :
       InitWith([b EXCEPT !.tiny = MaxTiny])

SpecTiny == InitTiny /\ [][Next]_vars

\* --- the event loop under fair scheduling: as long as a GET response that
\* has arrived, a buffer the origin has sent, a stream that is over, a queued
\* write or a settled assembly waits to be handled, the loop handles one;
\* commands, faults, ticks and the HEAD probe are up to the environment ---
Handled ==
    \/ \E w \in BagToSet(workers) : GetResponse(w)
    \/ \E w \in BagToSet(workers), n \in 1..(3 * NumChunks) : Data(w, n, FALSE)
    \/ \E w \in BagToSet(workers) : Flush(w)
    \/ \E w \in BagToSet(workers) : End(w)
    \/ \E ref \in BagToSet(asm), ok \in BOOLEAN : AssembleDone(ref, ok)

\* One entry, one data buffer and one command, fault, lagging write or tick.
InitLive == \E b \in Budgets(NumChunks + 1, MaxDownloads, 1, 1) : InitWith(b)

SpecLive == InitLive /\ [][Next]_vars /\ WF_vars(Handled)

\* ------------------------------------------------------------------ properties

Registered == {downloadsDb[i].ref : i \in 1..Len(downloadsDb)}

StatusOf(ref) == objs[ref].status

StartedIn(evs, id) == \E j \in 1..Len(evs) :
                         evs[j].type = "download-started" /\ evs[j].id = id

Started(id) == StartedIn(emitted, id)

Progressed(id) == \E j \in 1..Len(emitted) :
                     emitted[j].type = "download-progress" /\ emitted[j].id = id

Completed(id) == \E j \in 1..Len(emitted) :
                    emitted[j].type = "download-complete" /\ emitted[j].id = id

RangeLength(c) == c.end - c.start + 1

\* C1: in every reachable state at most MAX_CONCURRENT_DOWNLOADS entries of
\* the registry have status 'downloading'.
C1_AdmissionBound == ActiveDownloads(Mem) <= MAX_CONCURRENT_DOWNLOADS

\* Every slot is taken and an entry waits in the queue.
C1_Witness ==
    /\ ActiveDownloads(Mem) = MAX_CONCURRENT_DOWNLOADS
    /\ \E ref \in Registered : StatusOf(ref) = "queued"

\* C2: a handler that admitted an entry leaves no earlier-registered entry
\* queued (the entry it admits is the earliest-registered queued one), and no
\* step moves an entry to another position of the registry order.
C2_FifoPromotion ==
    [][/\ \A i \in 1..Len(downloadsDb) : downloadsDb'[i] = downloadsDb[i]
       /\ \A i \in 1..Len(downloadsDb') :
             StartedIn(emitted', downloadsDb'[i].id) =>
                \A j \in 1..(i - 1) : objs'[downloadsDb'[j].ref].status # "queued"]_vars

\* A resume command put an earlier entry back in the queue and the scheduler
\* admitted it while a later-registered entry keeps waiting.
C2_Witness ==
    \E i \in 1..Len(downloadsDb) :
          /\ Started(downloadsDb[i].id)
          /\ \E j \in (i + 1)..Len(downloadsDb) :
                objs[downloadsDb[j].ref].status = "queued"

\* C3: when an entry becomes 'complete' its final file holds the source bytes
\* 0..totalSize-1, each once and in order.
C3_ByteConservation ==
    \A ref \in Registered :
       (StatusOf(ref) = "complete" /\ Completed(objs[ref].id)) =>
          /\ objs[ref].url \in DOMAIN finals
          /\ finals[objs[ref].url] = SourceBytes(objs[ref].totalSize)

\* C4: for every totalSize >= 1 the NUM_CHUNKS ranges are start_i = i*c and
\* end_i = min((i+1)*c - 1, totalSize - 1) with c = ceil(totalSize/NUM_CHUNKS),
\* and every offset of 0..totalSize-1 lies in exactly one of them, none outside.
C4_ChunkRangesPartition ==
    plan # <<>> =>
       LET c == CeilDiv(planSize, NUM_CHUNKS) IN
       /\ \A k \in 1..Len(plan) :
             /\ plan[k].start = (k - 1) * c
             /\ plan[k].end = Min(k * c - 1, planSize - 1)
       /\ \A k \in 1..Len(plan) : \A x \in plan[k].start..plan[k].end :
             /\ x \in 0..(planSize - 1)
             /\ \A l \in 1..Len(plan) :
                   (l # k) => x \notin plan[l].start..plan[l].end
       /\ \A x \in 0..(planSize - 1) :
             \E k \in 1..Len(plan) : x \in plan[k].start..plan[k].end

\* C5: a paused entry stays paused until a resume command: only a command
\* step takes an entry out of 'paused'.
C5_PausedUntilResumed ==
    [][\A ref \in DOMAIN objs :
          (objs[ref].status = "paused" /\ objs'[ref].status # "paused") =>
             budget'.commands < budget.commands]_vars

\* C6: from the pause of an entry until its next admission, the entry has no
\* stream map, none of its streams is registered, it is not 'downloading' and
\* no handler emits download-progress for it.
C6_PauseSilence ==
    \A ref \in pausedSince :
       /\ objs[ref].id \notin DOMAIN activeChunkStreams
       /\ \A w \in BagToSet(workers) : (w.ref = ref) => ~w.reg
       /\ StatusOf(ref) # "downloading"
       /\ ~Progressed(objs[ref].id)

\* A progress tick reported the downloading entries while an entry that was
\* paused in mid-download stays silent.
C6_Witness ==
    /\ \E j \in 1..Len(emitted) : emitted[j].type = "download-progress"
    /\ \E ref \in pausedSince :
          /\ StatusOf(ref) = "paused"
          /\ \E k \in 1..NumChunks : objs[ref].chunks[k].status = "paused"

\* C7: for every chunk, downloaded <= end - start + 1, and its part file holds
\* no more bytes than that.
C7_ChunkWithinRange ==
    \A ref \in DOMAIN objs : \A k \in 1..Len(objs[ref].chunks) :
       LET c == objs[ref].chunks[k] IN
       /\ c.downloaded <= RangeLength(c)
       /\ getFilesize(Mem, objs[ref].id, k) <= RangeLength(c)

\* C8: over pause and resume every offset of a chunk's range is appended to
\* its part file exactly once: the part file is always the first bytes of the
\* range, in order, none twice, none skipped.
C8_ResumeAtDiskSize ==
    \A ref \in Registered : \A k \in 1..Len(objs[ref].chunks) :
       LET id == objs[ref].id
           c == objs[ref].chunks[k] IN
       (id \in DOMAIN parts /\ k \in DOMAIN parts[id]) =>
          parts[id][k] = RangeBytes(c.start, c.start + Len(parts[id][k]) - 1)

\* C9: an entry with a chunk in 'downloading' is itself 'downloading'.
C9_ChunkStatusFollowsEntry ==
    \A ref \in DOMAIN objs :
       (\E k \in 1..Len(objs[ref].chunks) :
           objs[ref].chunks[k].status = "downloading") =>
          StatusOf(ref) = "downloading"

\* C10: a 'complete' entry has downloadedSize = totalSize and tempDir null.
C10_CompleteEntry ==
    \A ref \in DOMAIN objs :
       (StatusOf(ref) = "complete") =>
          /\ objs[ref].downloadedSize = objs[ref].totalSize
          /\ ~objs[ref].tempDir

HasChunkIn(os, ref, st) ==
    \E k \in 1..Len(os[ref].chunks) : os[ref].chunks[k].status = st

\* C11: a chunk whose body failed mid-transfer brings its entry to 'error':
\* once the progress aggregation has run, every registered entry with a chunk
\* in 'error' is itself 'error', with a message.
C11_StreamErrorSurfaces ==
    [][budget'.ticks < budget.ticks =>
          \A ref \in Registered' :
             HasChunkIn(objs', ref, "error") =>
                objs'[ref].status = "error" /\ objs'[ref].error # <<>>]_vars

ErrorEvents(id) ==
    {j \in 1..Len(emitted) : emitted[j].type = "download-error" /\ emitted[j].id = id}

ActiveNow == ActiveDownloads(Mem)

SomeQueued == \E ref \in Registered : StatusOf(ref) = "queued"

\* C12: a step that takes an entry to 'error' sets its error message, emits
\* exactly one download-error for it, and has run the scheduler: it leaves no
\* entry queued while a download slot is free.
C12_ErrorTransition ==
    [][\A ref \in DOMAIN objs :
          (objs[ref].status # "error" /\ objs'[ref].status = "error") =>
             /\ objs'[ref].error # <<>>
             /\ Cardinality(ErrorEvents(objs[ref].id)') = 1
             /\ SomeQueued' => ActiveNow' >= MAX_CONCURRENT_DOWNLOADS]_vars

\* The handler that reported an entry's failure also admitted a waiting entry.
C12_Witness ==
    \E a \in Registered, b \in Registered :
       /\ StatusOf(a) = "error" /\ objs[a].error # <<>>
       /\ ErrorEvents(objs[a].id) # {}
       /\ b # a /\ Started(objs[b].id) /\ StatusOf(b) = "downloading"

\* The handler that consumed the HEAD request h ran in this step.
Answered(h) == h \in BagToSet(heads) /\ heads' = BagRemove(heads, h)

\* C13: when the HEAD response does not carry Accept-Ranges: bytes, the
\* handler emits one download-error whose message is the 'does not support'
\* text, and the registry, the entries and the store stay as they were.
C13_NoRangeSupport ==
    [][\A h \in BagToSet(heads) :
          (Answered(h) /\ ~h.response.failed /\ h.response.acceptRanges # "bytes") =>
             /\ emitted' = <<StartFailed(h.url, Unsupported)>>
             /\ downloadsDb' = downloadsDb
             /\ objs' = objs
             /\ store' = store]_vars

\* The refusal was reported while the registry already held entries.
C13_Witness ==
    /\ emitted = <<StartFailed(NextUrl, Unsupported)>>
    /\ Len(downloadsDb) >= 2
    /\ store # <<>>

\* C14: when the HEAD response advertises byte ranges and its Content-Length
\* is absent or no number, the handler emits a download-error and the
\* registry, the entries and the store stay as they were.
C14_MissingLength ==
    [][\A h \in BagToSet(heads) :
          (/\ Answered(h) /\ ~h.response.failed
           /\ h.response.acceptRanges = "bytes"
           /\ h.response.contentLength = NaN) =>
             /\ \E j \in 1..Len(emitted') : emitted'[j].type = "download-error"
             /\ downloadsDb' = downloadsDb
             /\ objs' = objs
             /\ store' = store]_vars

\* The recovery normalization of a saved entry e: status 'downloading' or
\* 'queued' becomes 'queued'; a chunk status 'downloading' becomes 'queued';
\* chunk.downloaded is the size of the part file, 0 when the temp directory no
\* longer exists; downloadedSize is the sum of chunk.downloaded.
Normalized(e) ==
    LET exists == e.tempDir /\ e.id \in DOMAIN parts
        cs == [k \in DOMAIN e.chunks |->
                 [e.chunks[k] EXCEPT
                    !.downloaded = IF exists THEN getFilesize(Mem, e.id, k) ELSE 0,
                    !.status = IF @ = "downloading" THEN "queued" ELSE @]]
    IN [e EXCEPT !.status = IF @ \in {"downloading", "queued"} THEN "queued" ELSE @,
                 !.chunks = cs,
                 !.downloadedSize = SumSeq([k \in DOMAIN cs |-> cs[k].downloaded])]

\* C15: saveDb followed by loadDb into an empty registry yields the ids of the
\* registry in registration order, each with its saved entry normalized.
C15_PersistenceRoundTrip ==
    LET saved == saveDb(Mem).store IN
    loadDb(saved, parts) =
       [i \in 1..Len(saved) |-> [id |-> downloadsDb[i].id,
                                 entry |-> Normalized(saved[i].entry)]]

\* C16: a start-download that passes the metadata probe adds one entry under
\* an id no registered entry has: the registry grows by one and every pair it
\* held stays in place.
C16_UniqueIds ==
    [][\A h \in BagToSet(heads) :
          (Answered(h) /\ ~h.response.failed /\ h.response.acceptRanges = "bytes") =>
             /\ h.id \notin RegisteredIds
             /\ Len(downloadsDb') = Len(downloadsDb) + 1
             /\ \A i \in 1..Len(downloadsDb) : downloadsDb'[i] = downloadsDb[i]]_vars

\* No pause or resume command was sent, and the behaviour has no fault, no
\* lagging write and no progress tick.
Undisturbed ==
    /\ budget.commands = QueueCommands
    /\ budget.faults = 0 /\ budget.lag = 0 /\ budget.ticks = 0

\* C17: against a well-behaved origin and with no pause or resume, every
\* entry reaches 'complete'.  Only a resume command takes an entry out of
\* 'error', so on the way no entry may be 'error'.
C17_EveryEntryCompletes ==
    Undisturbed => \A ref \in Registered : StatusOf(ref) # "error"

Pausable(ref) == objs[ref].status \in {"downloading", "queued"}

\* C18: when the pause-all-downloads handler returns, every entry that was
\* 'downloading' or 'queued' is 'paused', no entry is 'downloading' or
\* 'queued', and every other entry is as it was.
C18_PauseAll ==
    [][PauseAll =>
          \A ref \in Registered :
             /\ Pausable(ref) => objs'[ref].status = "paused"
             /\ objs'[ref].status \notin {"downloading", "queued"}
             /\ ~Pausable(ref) => objs'[ref] = objs[ref]]_vars

\* C19: resume-all-downloads leaves every entry that was 'paused' with no
\* error and 'queued', unless its scheduler pass admitted it; every other
\* entry keeps its status and error, unless it was queued and that pass
\* admitted it.
C19_ResumeAll ==
    [][ResumeAll =>
          \A ref \in Registered :
             IF objs[ref].status = "paused"
             THEN /\ objs'[ref].error = <<>>
                  /\ \/ objs'[ref].status = "queued"
                     \/ StartedIn(emitted', objs[ref].id)
             ELSE \/ /\ objs'[ref].status = objs[ref].status
                     /\ objs'[ref].error = objs[ref].error
                  \/ /\ objs[ref].status = "queued"
                     /\ StartedIn(emitted', objs[ref].id)]_vars

\* One handler admitted MAX_CONCURRENT_DOWNLOADS entries and left a resumed
\* entry in the queue: every entry had been paused and all were resumed.
C19_Witness ==
    /\ Cardinality({ref \in Registered : Started(objs[ref].id)}) = MAX_CONCURRENT_DOWNLOADS
    /\ \E ref \in Registered \cap pausedSince :
          StatusOf(ref) = "queued" /\ objs[ref].error = <<>>

\* C20: the status of an entry changes only along the edges of the entry
\* state machine.  One handler runs to completion and may take several edges
\* in a row (resume, admit, all chunks complete), so a step may follow a path
\* of edges whose intermediate statuses are 'queued' or 'downloading'.
C20_StatusEdges ==
    [][LET Edge == {<<"queued", "downloading">>, <<"downloading", "assembling">>,
                    <<"downloading", "paused">>, <<"queued", "paused">>,
                    <<"downloading", "error">>, <<"assembling", "complete">>,
                    <<"assembling", "error">>, <<"paused", "queued">>,
                    <<"error", "queued">>, <<"complete", "queued">>}
           Via == {"queued", "downloading"}
           Path(s, t) ==
               \/ <<s, t>> \in Edge
               \/ \E u \in Via : <<s, u>> \in Edge /\ <<u, t>> \in Edge
               \/ \E u, v \in Via :
                     <<s, u>> \in Edge /\ <<u, v>> \in Edge /\ <<v, t>> \in Edge
       IN \A ref \in Registered :
             \/ objs'[ref].status = objs[ref].status
             \/ Path(objs[ref].status, objs'[ref].status)]_vars

\* C21: whenever the engine is idle between two events, the persistent store
\* holds the ids of the registry in order, each with the status its entry has
\* in memory.
C21_StoreMatchesRegistry ==
    ~crashed =>
       /\ Len(store) = Len(downloadsDb)
       /\ \A i \in 1..Len(downloadsDb) :
             /\ store[i].id = downloadsDb[i].id
             /\ store[i].entry.status = objs[downloadsDb[i].ref].status

\* C22: when the content of the persistent store is malformed, that is not
\* parseable, or an array with an element that is no (id, entry) pair, loadDb
\* leaves the registry empty.
C22_MalformedStoreLoadsEmpty ==
    /\ loadDbCatching(Unparseable, parts) = <<>>
    /\ \A i \in 1..Len(store) :
          loadDbCatching(Content(store, {i}), parts) = <<>>

\* C23: at the end of every aggregation tick, every entry of the registry
\* has downloadedSize equal to the sum of downloaded over its chunks.
C23_TickAggregates ==
    [][ProgressTick =>
          \A ref \in Registered :
             objs'[ref].downloadedSize =
                SumSeq([k \in DOMAIN objs'[ref].chunks |->
                           objs'[ref].chunks[k].downloaded])]_vars

\* Every part file of the entry ref holds as many bytes as its chunk's range.
PartSizesExact(ref) ==
    \A k \in 1..Len(objs[ref].chunks) :
       getFilesize(Mem, objs[ref].id, k) = RangeLength(objs[ref].chunks[k])

\* C24: an assembly on which no I/O fault is injected ends with the entry
\* 'complete' if every part file's size is end - start + 1, and with the
\* entry 'error' if some part file is shorter or longer.
C24_AssemblyChecksSizes ==
    [][\A ref \in BagToSet(asm) :
          ((\E ok \in BOOLEAN : AssembleDone(ref, ok)) /\ budget' = budget) =>
             objs'[ref].status = IF PartSizesExact(ref) THEN "complete" ELSE "error"]_vars

\* The handler of this step started a chunk worker that awaits the GET for
\* bytes from..to of chunk k of the entry ref.
Requested(ref, k, from, to) ==
    \E w \in BagToSet(workers') :
       /\ w.ref = ref /\ w.chunk = k /\ w.phase = "request"
       /\ w.next = from /\ w.last = to
       /\ CopiesIn(w, workers') > CopiesIn(w, workers)

\* The handler of this step started some chunk worker on chunk k of ref.
RequestedAny(ref, k) ==
    \E w \in BagToSet(workers') :
       /\ w.ref = ref /\ w.chunk = k /\ w.phase = "request"
       /\ CopiesIn(w, workers') > CopiesIn(w, workers)

\* C25: when an entry is admitted, each chunk worker started on a chunk with
\* a numeric range marks the chunk 'complete' with no request exactly when
\* start + (part file size) > end, and otherwise requests start+size..end.
C25_RangeTest ==
    [][\A ref \in Registered' :
          StartedIn(emitted', objs'[ref].id) =>
             \A k \in 1..Len(objs'[ref].chunks) :
                LET c == objs'[ref].chunks[k]
                    size == getFilesize(Mem, objs'[ref].id, k)
                    started == ref \notin DOMAIN objs
                                  \/ objs[ref].chunks[k].status # "complete"
                IN (started /\ c.start # NaN /\ c.end # NaN) =>
                      IF c.start + size > c.end
                      THEN c.status = "complete" /\ ~RequestedAny(ref, k)
                      ELSE /\ c.status # "complete"
                           /\ Requested(ref, k, c.start + size, c.end)]_vars

CompleteEvents(id) ==
    {j \in 1..Len(emitted) : emitted[j].type = "download-complete" /\ emitted[j].id = id}

\* C26: a handler that starts an assembly of an entry leaves every chunk of
\* it 'complete'.  When the assembly has settled, the entry is 'complete'
\* with tempDir null and one download-complete event, or 'error' with the
\* message 'Failed to assemble file.', tempDir set and one download-error
\* event; and the scheduler has run: if an entry was queued while a slot was
\* free, the handler admitted an entry.
C26_AssemblyOutcome ==
    [][/\ \A ref \in DOMAIN objs' :
             CopiesIn(ref, asm') > CopiesIn(ref, asm) =>
                \A k \in 1..Len(objs'[ref].chunks) :
                   objs'[ref].chunks[k].status = "complete"
       /\ \A ref \in BagToSet(asm) : \A ok \in BOOLEAN :
             AssembleDone(ref, ok) =>
                /\ IF ok
                   THEN /\ objs'[ref].status = "complete"
                        /\ ~objs'[ref].tempDir
                        /\ Cardinality(CompleteEvents(objs[ref].id)') = 1
                        /\ ErrorEvents(objs[ref].id)' = {}
                   ELSE /\ objs'[ref].status = "error"
                        /\ objs'[ref].error = <<"Failed to assemble file.">>
                        /\ objs'[ref].tempDir
                        /\ Cardinality(ErrorEvents(objs[ref].id)') = 1
                        /\ CompleteEvents(objs[ref].id)' = {}
                /\ (SomeQueued /\ ActiveNow < MAX_CONCURRENT_DOWNLOADS) =>
                      \E r \in Registered : StartedIn(emitted', objs[r].id)]_vars

AllChunksComplete(ref) ==
    \A k \in 1..Len(objs[ref].chunks) : objs[ref].chunks[k].status = "complete"

\* C27: an entry that is 'downloading' with every chunk 'complete', so that
\* no request of its own is outstanding, eventually leaves 'downloading'.
C27_AdmittedLeavesDownloading ==
    \A ref \in 1..MaxDownloads :
       (ref \in DOMAIN objs /\ StatusOf(ref) = "downloading" /\ AllChunksComplete(ref))
          ~> (ref \in DOMAIN objs /\ StatusOf(ref) # "downloading")

\* C28: an entry of the registry that is not 'downloading' has no stream
\* registered in the active-stream map and no live response stream feeding
\* its part files.
C28_NoStreamsUnlessDownloading ==
    \A ref \in Registered :
       (StatusOf(ref) # "downloading") =>
          /\ objs[ref].id \in DOMAIN activeChunkStreams =>
                activeChunkStreams[objs[ref].id] = {}
          /\ \A w \in BagToSet(workers) :
                (w.ref = ref) => (~w.reg /\ w.phase # "streaming")

\* The chunk workers of chunk k of the entry ref that await their GET
\* response or stream into the part file.
InFlight(ref, k) ==
    BagCardinality(BagFilter(workers, LAMBDA w :
        w.ref = ref /\ w.chunk = k /\ w.phase \in {"request", "streaming"}))

\* C29: for every entry and chunk at most one chunk worker is in flight.
C29_OneWorkerPerChunk ==
    \A ref \in DOMAIN objs : \A k \in 1..Len(objs[ref].chunks) :
       InFlight(ref, k) <= 1

\* C30: were the process restarted now, loadDb would leave no entry in a
\* transient status: every loaded entry is 'queued', 'paused', 'complete' or
\* 'error'.
C30_NoTransientAfterLoad ==
    \A i \in 1..Len(store) :
       loadDb(store, parts)[i].entry.status \in {"queued", "paused", "complete", "error"}

\* C31: the pause-all-downloads handler admits no entry: it emits no
\* download-started event and starts no chunk worker for any entry.
C31_PauseAllAdmitsNothing ==
    [][PauseAll =>
          /\ \A j \in 1..Len(emitted') : emitted'[j].type # "download-started"
          /\ \A ref \in DOMAIN objs' : \A k \in 1..Len(objs'[ref].chunks) :
                ~RequestedAny(ref, k)]_vars

====
